---- MODULE Spec2Model ----
(***************************************************************************)
(* dkb2ynab: a polling loop that downloads DKB bank exports from a WebDAV  *)
(* mailbox directory into a local work directory, converts each '*.csv'    *)
(* file to the YNAB import format, uploads the result to a second WebDAV   *)
(* directory and cleans up.                                                *)
(*                                                                         *)
(* Text (file names, dates, IBANs, amounts) is a sequence of one-character *)
(* strings, so that the regular expressions, splits, date parsing and      *)
(* formatting of the program are computed and not assumed.                 *)
(***************************************************************************)
EXTENDS Integers, Sequences, FiniteSets, TLC

VARIABLES
    remote,      \* csv_folder on the WebDAV server: file name -> content
    dest,        \* ynab_folder on the WebDAV server: file name -> content
    staging,     \* workdir, the local work directory: file name -> content
    pc,          \* where main() is: list, fetch, scan, convert, sleep, crashed
    safe_files,  \* download_webdav_files: the entries still to be downloaded
    files,       \* main: the entries of the glob snapshot still to be converted
    rlog,        \* history: the WebDAV requests of download_webdav_files in this cycle
    last,        \* history: what the last convert_file call of this cycle did
    converted    \* history: the staged files converted and uploaded since their download

vars == <<remote, dest, staging, pc, safe_files, files, rlog, last, converted>>

\* ------------------------------------------------------------------ bounds

\* How many transaction lines (line 6 and later) an enumerated export holds.
MaxRows == 2
\* How many files the external actor keeps in the mailbox directory at once.
MaxRemote == 2

\* --------------------------------------------------------------- constants

\* r'\d{8}-\d{8}\.csv': the digits of each date of a ranged file name.
DateDigits == 8
\* r'^DE\d{20}$': the digits of an IBAN after the country code.
IbanDigits == 20
\* 'if dkb_reader.line_num > 5': the lines before the transactions.
PreambleLines == 5
\* '%y': two-digit years below 69 are in the 2000s, the others in the 1900s.
PivotYear == 69

\* -------------------------------------------------------------------- text

Digits == {"0", "1", "2", "3", "4", "5", "6", "7", "8", "9"}

DigitVal(c) ==
    CASE c = "0" -> 0 [] c = "1" -> 1 [] c = "2" -> 2 [] c = "3" -> 3
      [] c = "4" -> 4 [] c = "5" -> 5 [] c = "6" -> 6 [] c = "7" -> 7
      [] c = "8" -> 8 [] c = "9" -> 9

DigitChar(n) ==
    CASE n = 0 -> "0" [] n = 1 -> "1" [] n = 2 -> "2" [] n = 3 -> "3"
      [] n = 4 -> "4" [] n = 5 -> "5" [] n = 6 -> "6" [] n = 7 -> "7"
      [] n = 8 -> "8" [] n = 9 -> "9"

\* Python's None, for a field a short csv line does not have.
None == <<"<None>">>

IsDigits(s) == \A i \in 1..Len(s) : s[i] \in Digits

RECURSIVE ToInt(_)
\* int() of a text of decimal digits.
ToInt(s) ==
    IF s = <<>> THEN 0
    ELSE 10 * ToInt(SubSeq(s, 1, Len(s) - 1)) + DigitVal(s[Len(s)])

\* Zero-padded decimal renderings, as '%m', '%d' and '%Y' print them.
Pad2(n) == <<DigitChar(n \div 10), DigitChar(n % 10)>>
Pad4(n) == Pad2(n \div 100) \o Pad2(n % 100)

\* The index of the first c in s, 0 when there is none.
FirstIndex(s, c) ==
    IF \E i \in 1..Len(s) : s[i] = c
    THEN CHOOSE i \in 1..Len(s) : s[i] = c /\ \A j \in 1..(i - 1) : s[j] # c
    ELSE 0

RECURSIVE Split(_, _)
\* str.split(c): the pieces of s between the occurrences of c.
Split(s, c) ==
    LET i == FirstIndex(s, c)
    IN  IF i = 0 THEN <<s>>
        ELSE <<SubSeq(s, 1, i - 1)>> \o Split(SubSeq(s, i + 1, Len(s)), c)

StartsWith(s, p) == Len(s) >= Len(p) /\ SubSeq(s, 1, Len(p)) = p
EndsWith(s, p) == Len(s) >= Len(p) /\ SubSeq(s, Len(s) - Len(p) + 1, Len(s)) = p

RECURSIVE ReplaceChar(_, _, _)
\* str.replace(c, by) for a one-character c; by is a text, maybe empty.
ReplaceChar(s, c, by) ==
    IF s = <<>> THEN <<>>
    ELSE (IF Head(s) = c THEN by ELSE <<Head(s)>>) \o ReplaceChar(Tail(s), c, by)

DotCsv == <<".", "c", "s", "v">>

\* ------------------------------------------------------------------- dates

IsLeap(y) == (y % 4 = 0 /\ y % 100 # 0) \/ y % 400 = 0

DaysInMonth(y, m) ==
    IF m = 2 THEN (IF IsLeap(y) THEN 29 ELSE 28)
    ELSE IF m \in {4, 6, 9, 11} THEN 30 ELSE 31

NoDate == [ok |-> FALSE, y |-> 0, m |-> 0, d |-> 0]

\* datetime(y, m, d): a ValueError (ok = FALSE) outside the calendar.
MkDate(y, m, d) ==
    IF y >= 1 /\ m \in 1..12 /\ d >= 1 /\ d <= DaysInMonth(y, m)
    THEN [ok |-> TRUE, y |-> y, m |-> m, d |-> d]
    ELSE NoDate

\* The order of two datetimes at midnight is that of these numbers.
DateKey(dt) == dt.y * 10000 + dt.m * 100 + dt.d

\* strptime's pattern for %m: 1[0-2]|0[1-9]|[1-9]
IsMonthToken(t) ==
    /\ Len(t) \in {1, 2}
    /\ IsDigits(t)
    /\ ToInt(t) \in 1..12
\* strptime's pattern for %d: 3[01]|[12]\d|0[1-9]|[1-9]| [1-9]
IsDayToken(t) ==
    \/ Len(t) \in {1, 2} /\ IsDigits(t) /\ ToInt(t) \in 1..31
    \/ Len(t) = 2 /\ t[1] = " " /\ t[2] \in (Digits \ {"0"})
DayOfToken(t) == IF t[1] = " " THEN DigitVal(t[2]) ELSE ToInt(t)

\* datetime.strptime(s, '%Y%m%d') for the texts convert_file passes: the
\* pattern has matched, so s is eight digits, and strptime's pattern
\* (\d\d\d\d)(1[0-2]|0[1-9]|[1-9])(3[01]|[12]\d|0[1-9]|[1-9]| [1-9]) either
\* takes two digits each for month and day or leaves digits over (an error).
StrptimeYmd(s) ==
    IF Len(s) = DateDigits /\ IsDigits(s)
       /\ ToInt(SubSeq(s, 5, 6)) \in 1..12
       /\ ToInt(SubSeq(s, 7, 8)) \in 1..31
    THEN MkDate(ToInt(SubSeq(s, 1, 4)), ToInt(SubSeq(s, 5, 6)), ToInt(SubSeq(s, 7, 8)))
    ELSE NoDate

\* datetime.strptime(s, '%d.%m.%y'): day, month and two-digit year between
\* dots; None (a short line) is a TypeError, reported the same way.
\* The year of '%y'.
YearOf(yy) == IF yy < PivotYear THEN 2000 + yy ELSE 1900 + yy

\* The date of the pieces p that '.' separates.
DateOfPieces(p) ==
    IF /\ Len(p) = 3
       /\ IsDayToken(p[1])
       /\ IsMonthToken(p[2])
       /\ Len(p[3]) = 2 /\ IsDigits(p[3])
    THEN MkDate(YearOf(ToInt(p[3])), ToInt(p[2]), DayOfToken(p[1]))
    ELSE NoDate

StrptimeDmy(s) == IF s = None THEN NoDate ELSE DateOfPieces(Split(s, "."))

\* date.strftime('%Y-%m-%d')
StrftimeIso(dt) == Pad4(dt.y) \o <<"-">> \o Pad2(dt.m) \o <<"-">> \o Pad2(dt.d)

\* str(datetime) of a date at midnight, as an f-string renders it.
StrDatetime(dt) ==
    StrftimeIso(dt) \o <<" ", "0", "0", ":", "0", "0", ":", "0", "0">>

\* ----------------------------------------------------------- file contents

\* One line of a semicolon-delimited file as csv.DictReader yields it: the
\* fields the program reads, None where the line is too short to have them.
\* An empty line is skipped by the reader but counted by line_num.
Line(f1, f2, payer, payee, memo, typ, amount) ==
    [blank |-> FALSE, Buchungsdatum |-> f1, Wertstellung |-> f2,
     Zahlungspflichtige |-> payer, Zahlungsempfaenger |-> payee,
     Verwendungszweck |-> memo, Umsatztyp |-> typ, Betrag |-> amount]

BlankLine ==
    [blank |-> TRUE, Buchungsdatum |-> None, Wertstellung |-> None,
     Zahlungspflichtige |-> "", Zahlungsempfaenger |-> "",
     Verwendungszweck |-> None, Umsatztyp |-> "", Betrag |-> None]

\* A line with a single field (no semicolon in it).
OneFieldLine(f1) == Line(f1, None, "", "", None, "", None)

\* A file of the work directory or of a WebDAV directory: a DKB export
\* (lines) or a YNAB file written by convert_data (rows under its header).
DkbFile(lines) == [kind |-> "dkb", lines |-> lines, rows |-> <<>>]
YnabFile(rows) == [kind |-> "ynab", lines |-> <<>>, rows |-> rows]

\* writer.writeheader(): 'Date,Payee,Memo,Amount', one field for a reader
\* that splits on ';'.
YnabHeaderText ==
    <<"D", "a", "t", "e", ",", "P", "a", "y", "e", "e", ",",
      "M", "e", "m", "o", ",", "A", "m", "o", "u", "n", "t">>

\* What csv.DictReader(delimiter=';') yields for a file: a YNAB file read
\* back has its header text as the first field of line 1 and no second
\* field; its later lines begin with the row's date.
ReaderLines(file) ==
    IF file.kind = "dkb" THEN file.lines
    ELSE <<OneFieldLine(YnabHeaderText)>> \o
         [i \in 1..Len(file.rows) |-> OneFieldLine(file.rows[i].Date \o <<",">>)]

\* ------------------------------------------------------------ convert_data

\* datestamp = today.strftime('%Y%m%d'), computed once when the module loads.
Datestamp == <<"2", "0", "2", "4", "0", "3", "0", "5">>

BankName == "DKB AG"
Inflow == "Eingang"
\* The memo of a line is a sequence of words; the balance marker is a word.
BalanceMarker == "Kontostand/Rechnungsabschluss"

NoRange == [active |-> FALSE, start |-> NoDate, end |-> NoDate]
Range(s, e) == [active |-> TRUE, start |-> s, end |-> e]

\* re.match(r'^DE\d{20}$', iban): '$' also matches before a final newline.
IbanOk(iban) ==
    LET core == IF Len(iban) = 2 + IbanDigits + 1 /\ iban[Len(iban)] = "\n"
                THEN SubSeq(iban, 1, Len(iban) - 1) ELSE iban
    IN  /\ Len(core) = 2 + IbanDigits
        /\ core[1] = "D" /\ core[2] = "E"
        /\ IsDigits(SubSeq(core, 3, Len(core)))

\* ynab_file_name without its '{workdir}/': the two f-strings.
YnabFileName(account, iban, range) ==
    IF range.active
    THEN Datestamp \o <<"-">> \o account \o <<"-">> \o iban \o <<"_">>
         \o StrDatetime(range.start) \o <<"_">> \o StrDatetime(range.end) \o DotCsv
    ELSE Datestamp \o <<"-">> \o account \o <<"-">> \o iban \o DotCsv

\* A filter whose bounds are exclusive.
OutOfRangeExclusive(date, range) ==
    DateKey(date) <= DateKey(range.start) \/ DateKey(date) >= DateKey(range.end)

\* 'if date < start_date or date > end_date'
OutOfRange(date, range) ==
    DateKey(date) < DateKey(range.start) \/ DateKey(date) > DateKey(range.end)

\* row['Betrag (€)'].replace('.', '').replace(',', '.')
ConvertAmount(betrag) == ReplaceChar(ReplaceChar(betrag, ".", <<>>), ",", <<".">>)

\* A check that takes the marker only when it is the whole memo.
MemoIsMarker(memo) == memo = <<BalanceMarker>>

\* 'Kontostand/Rechnungsabschluss' in row['Verwendungszweck']
HasMarker(memo) == \E i \in 1..Len(memo) : memo[i] = BalanceMarker

\* A row with the payer as payee for every type but the inflow.
PayeeSwapped(row) ==
    IF row.Umsatztyp = Inflow THEN row.Zahlungsempfaenger
    ELSE row.Zahlungspflichtige

\* The payee of the YNAB row: payer and payee change places for an inflow.
PayeeOf(row) ==
    IF row.Umsatztyp = Inflow THEN row.Zahlungspflichtige
    ELSE row.Zahlungsempfaenger

NoRow == [Date |-> <<>>, Payee |-> "", Memo |-> <<>>, Amount |-> <<>>]

\* The body of 'if dkb_reader.line_num > 5' for one line, in the order of the
\* code: the date is parsed (an exception for a bad one), a date outside an
\* active range skips the line, the amount is rewritten (an exception for a
\* missing field), the summary line is skipped, anything else is a row.
RowStepAt(row, range, date) ==
    IF ~date.ok THEN [kind |-> "raise", row |-> NoRow]
    ELSE IF range.active /\ OutOfRange(date, range)
    THEN [kind |-> "skip", row |-> NoRow]
    ELSE IF row.Betrag = None THEN [kind |-> "raise", row |-> NoRow]
    ELSE IF row.Zahlungspflichtige = BankName /\ row.Verwendungszweck = None
    THEN [kind |-> "raise", row |-> NoRow]
    ELSE IF row.Zahlungspflichtige = BankName /\ HasMarker(row.Verwendungszweck)
    THEN [kind |-> "skip", row |-> NoRow]
    ELSE [kind |-> "emit",
          row |-> [Date |-> StrftimeIso(date), Payee |-> PayeeOf(row),
                   Memo |-> row.Verwendungszweck,
                   Amount |-> ConvertAmount(row.Betrag)]]

RowStep(row, range) == RowStepAt(row, range, StrptimeDmy(row.Buchungsdatum))

\* convert_data's progress: whether an exception left it (and at which
\* line; 0 is outside the loop over the lines), whether ynab_file_name is bound, the
\* name, and the rows appended to the file of that name.
ConvStart ==
    [raised |-> FALSE, failLine |-> 0, bound |-> FALSE, fname |-> <<>>, out |-> <<>>]

Raise(acc, n) == [acc EXCEPT !.raised = TRUE, !.failLine = n]

\* 'if dkb_reader.line_num == 1': account name and IBAN, the IBAN check, the
\* file name, and the output file opened 'w' with the header written.
HeaderStep(row, range, acc) ==
    IF row.Wertstellung = None \/ ~IbanOk(row.Wertstellung)
    THEN Raise(acc, 1)
    ELSE [acc EXCEPT !.bound = TRUE,
                     !.fname = YnabFileName(row.Buchungsdatum, row.Wertstellung, range),
                     !.out = <<>>]

\* The data branch for line n: an emitted row is appended to the file named
\* ynab_file_name, an UnboundLocalError when line 1 never bound the name.
WriteRow(r, n, acc) ==
    IF r.kind = "raise" THEN Raise(acc, n)
    ELSE IF r.kind = "skip" THEN acc
    ELSE IF ~acc.bound THEN Raise(acc, n)
    ELSE [acc EXCEPT !.out = Append(acc.out, r.row)]

DataStep(row, n, range, acc) == WriteRow(RowStep(row, range), n, acc)

\* A second 'if' that takes line 5 for a transaction line as well.
DataPartFromLine5(row, n, range, acc) ==
    IF ~acc.raised /\ n >= PreambleLines THEN DataStep(row, n, range, acc) ELSE acc

\* The second 'if' of the loop body, after the first has run (acc): not
\* reached when the first raised.
DataPart(row, n, range, acc) ==
    IF ~acc.raised /\ n > PreambleLines THEN DataStep(row, n, range, acc) ELSE acc

\* The loop body for line n.
LineStep(row, n, range, acc) ==
    DataPart(row, n, range, IF n = 1 THEN HeaderStep(row, range, acc) ELSE acc)

RECURSIVE ReadLines(_, _, _, _)
\* The lines after line n, whose body left acc.
ReadOn(lines, n, range, acc) ==
    IF acc.raised THEN acc ELSE ReadLines(lines, n + 1, range, acc)

\* 'for row in dkb_reader' from line n on.
ReadLines(lines, n, range, acc) ==
    IF n > Len(lines) THEN acc
    ELSE IF lines[n].blank THEN ReadLines(lines, n + 1, range, acc)
    ELSE ReadOn(lines, n, range, LineStep(lines[n], n, range, acc))

\* ------------------------------------------------------------- directories

EmptyDir == [n \in {} |-> 0]

\* The directory with file n written (created or replaced) with content c.
Put(dir, n, c) == [x \in DOMAIN dir \cup {n} |-> IF x = n THEN c ELSE dir[x]]
\* The directory without n.
Remove(dir, n) == [x \in DOMAIN dir \ {n} |-> dir[x]]

NoFile == [kind |-> "none", lines |-> <<>>, rows |-> <<>>]
ContentOf(dir, n) == IF n \in DOMAIN dir THEN dir[n] ELSE NoFile

\* A cleanup that keeps the output file when the upload failed.
UnlinksOutputWhenUploaded(upOk) == upOk

\* The second try block of convert_data is reached whatever upload_webdav_file
\* did: that function logs a WebDAV failure itself, and any other exception
\* is caught by the first try block.
UnlinksOutput(upOk) == TRUE

\* convert_data(file, start_date, end_date) on the work directory `work` and
\* the destination directory `out`: the lines are read and the output file
\* written as they are accepted; after the last line the file is uploaded
\* (upOk: the upload worked) and unlinked (rmOk: the unlink worked).  An
\* exception leaves the function at once, past the upload and the unlink.
\* The work directory with the output file as the loop wrote it.
Written(work, acc) ==
    IF acc.bound THEN Put(work, acc.fname, YnabFile(acc.out)) ELSE work

\* The two try blocks after the loop, reached when no exception left it
\* (done); written is the work directory at that point.
UploadAndUnlink(written, out, acc, done, upOk, rmOk) ==
    [work |-> IF done /\ UnlinksOutput(upOk) /\ rmOk
              THEN Remove(written, acc.fname) ELSE written,
     out |-> IF done /\ upOk THEN Put(out, acc.fname, written[acc.fname]) ELSE out,
     conv |-> acc,
     uploads |-> IF done THEN 1 ELSE 0,
     upOk |-> done /\ upOk,
     unlinks |-> IF done /\ UnlinksOutput(upOk) THEN 1 ELSE 0,
     rmOk |-> done /\ UnlinksOutput(upOk) /\ rmOk]

\* The first try block reads ynab_file_name: when line 1 never bound it, that
\* is an UnboundLocalError, which the handler raises again when it reads the
\* name for its log line, and which leaves convert_data (failLine 0).
AtUpload(acc) == IF ~acc.raised /\ ~acc.bound THEN Raise(acc, 0) ELSE acc

AfterLoop(work, out, acc, upOk, rmOk) ==
    UploadAndUnlink(Written(work, acc), out, AtUpload(acc), ~acc.raised /\ acc.bound,
                    upOk, rmOk)

ConvertData(work, out, f, range, upOk, rmOk) ==
    IF f \notin DOMAIN work
    THEN [work |-> work, out |-> out, conv |-> Raise(ConvStart, 0),
          uploads |-> 0, upOk |-> FALSE, unlinks |-> 0, rmOk |-> FALSE]
    ELSE AfterLoop(work, out, ReadLines(ReaderLines(work[f]), 1, range, ConvStart),
                   upOk, rmOk)

\* ------------------------------------------------------------ convert_file

\* re.match(r'\d{8}-\d{8}\.csv', file.name): a match at the start of the name.
HasRange(name) ==
    /\ Len(name) >= 2 * DateDigits + 1 + Len(DotCsv)
    /\ IsDigits(SubSeq(name, 1, DateDigits))
    /\ name[DateDigits + 1] = "-"
    /\ IsDigits(SubSeq(name, DateDigits + 2, 2 * DateDigits + 1))
    /\ SubSeq(name, 2 * DateDigits + 2, 2 * DateDigits + 1 + Len(DotCsv)) = DotCsv

\* file.name.split('-')[0] and file.name.split('-')[1].split('.')[0]
StartDateStr(name) == Split(name, "-")[1]
EndDateStr(name) == Split(Split(name, "-")[2], ".")[1]

\* A convert_file that deletes every source it converted without error.
UnlinksSourceWhenConverted(ranged, raised) == ~raised

\* Path(file).unlink() is in the else branch, after the try statement: it is
\* reached for every file without a range, whether convert_data raised or not.
UnlinksSource(ranged, raised) == ~ranged

NoCall ==
    [called |-> FALSE, file |-> <<>>, ranged |-> FALSE, range |-> NoRange,
     src |-> NoFile, conv |-> ConvStart, uploads |-> 0, upOk |-> FALSE,
     unlinks |-> 0, rmOk |-> FALSE, crashed |-> FALSE]

\* convert_file(file): the new work and destination directories, whether an
\* exception left convert_file (nothing in main catches it), and the record
\* of the call.  The two strptime calls of the ranged branch are outside its
\* try statement, and so is the unlink of the other branch, which raises
\* FileNotFoundError when the file is no longer there.
\* The record of a call; the outcomes of the upload and of the unlink of the
\* output are filled in where they happen.
Call(work, f, ranged, range) ==
    [called |-> TRUE, file |-> f, ranged |-> ranged, range |-> range,
     src |-> ContentOf(work, f)]

\* A strptime call of the ranged branch raised: nothing was done.
BadName(work, out, call) ==
    [work |-> work, out |-> out, crashed |-> TRUE,
     last |-> call @@ [conv |-> ConvStart, uploads |-> 0, upOk |-> FALSE,
                       unlinks |-> 0, rmOk |-> FALSE, crashed |-> TRUE]]

\* After the try statement around convert_data, which returned cd: the unlink
\* of the source where it is reached.
AfterConvert(cd, f, unlink, call) ==
    [work |-> IF unlink /\ f \in DOMAIN cd.work THEN Remove(cd.work, f) ELSE cd.work,
     out |-> cd.out,
     crashed |-> unlink /\ f \notin DOMAIN cd.work,
     last |-> call @@ [conv |-> cd.conv, uploads |-> cd.uploads, upOk |-> cd.upOk,
                       unlinks |-> cd.unlinks, rmOk |-> cd.rmOk,
                       crashed |-> unlink /\ f \notin DOMAIN cd.work]]

Converted(cd, f, ranged, call) ==
    AfterConvert(cd, f, UnlinksSource(ranged, cd.conv.raised), call)

RangedBranch(work, out, f, start, end, upOk, rmOk) ==
    IF ~start.ok \/ ~end.ok
    THEN BadName(work, out, Call(work, f, TRUE, NoRange))
    ELSE Converted(ConvertData(work, out, f, Range(start, end), upOk, rmOk), f, TRUE,
                   Call(work, f, TRUE, Range(start, end)))

ConvertFileResult(work, out, f, upOk, rmOk) ==
    IF HasRange(f)
    THEN RangedBranch(work, out, f, StrptimeYmd(StartDateStr(f)),
                      StrptimeYmd(EndDateStr(f)), upOk, rmOk)
    ELSE Converted(ConvertData(work, out, f, NoRange, upOk, rmOk), f, FALSE,
                   Call(work, f, FALSE, NoRange))

\* ------------------------------------------------------------------ inputs

\* File names the external actor uses.  None of them has the form of an
\* output name of convert_data ('<datestamp>-<account>-<iban>...csv').
NExport == <<"e", "x", "p", "o", "r", "t", ".", "c", "s", "v">>
NRanged == <<"2", "0", "2", "4", "0", "1", "0", "1", "-", "2", "0", "2", "4", "0", "1", "3", "1", ".", "c", "s", "v">>
NSuffix == <<"2", "0", "2", "4", "0", "1", "0", "1", "-", "2", "0", "2", "4", "0", "1", "3", "1", ".", "c", "s", "v", ".", "c", "s", "v">>
NBadDate == <<"2", "0", "2", "4", "0", "2", "3", "0", "-", "2", "0", "2", "4", "0", "3", "3", "1", ".", "c", "s", "v">>
NHidden == <<".", "e", "x", "p", "o", "r", "t", ".", "c", "s", "v">>
NNotes == <<"n", "o", "t", "e", "s", ".", "t", "x", "t">>

\* client.list returns the directory itself first.
DirEntry == <<"c", "s", "v", "/">>

Account == <<"G", "i", "r", "o">>
GoodIban == <<"D", "E", "1", "2", "3", "4", "5", "6", "7", "8", "9", "0", "1", "2", "3", "4", "5", "6", "7", "8", "9", "0">>
\* IBAN fields the pattern must refuse: too short, 19 and 21 digits, a lower
\* case country code, a letter among the digits.
BadIbans ==
    { <<"D", "E", "1", "2", "3", "4">>,
      <<"D", "E", "1", "2", "3", "4", "5", "6", "7", "8", "9", "0", "1", "2", "3", "4", "5", "6", "7", "8", "9">>,
      <<"D", "E", "1", "2", "3", "4", "5", "6", "7", "8", "9", "0", "1", "2", "3", "4", "5", "6", "7", "8", "9", "0", "1">>,
      <<"d", "e", "1", "2", "3", "4", "5", "6", "7", "8", "9", "0", "1", "2", "3", "4", "5", "6", "7", "8", "9", "0">>,
      <<"D", "E", "1", "2", "3", "4", "5", "6", "7", "8", "9", "0", "1", "2", "3", "4", "5", "6", "7", "8", "9", "X">> }
\* A quoted IBAN field whose closing quote is missing on the last line of the
\* file: the reader returns the field with the line break in it.
NewlineIban == GoodIban \o <<"\n">>

HeaderLine(iban) == Line(Account, iban, "", "", None, "", None)

\* Transaction lines: inside January 2024 (its first and last day among
\* them), outside it, the balance summary, and lines that do not parse.
RMid == Line(<<"1", "5", ".", "0", "1", ".", "2", "4">>, <<>>, "Me", "Shop", <<"Miete">>, "Ausgang", <<"-", "1", ".", "2", "3", "4", ",", "5", "6">>)
RFirst == Line(<<"0", "1", ".", "0", "1", ".", "2", "4">>, <<>>, "Employer", "Me", <<"Gehalt">>, "Eingang", <<"2", ".", "5", "0", "0", ",", "0", "0">>)
RLast == Line(<<"3", "1", ".", "0", "1", ".", "2", "4">>, <<>>, "Me", "Bakery", <<"Brot">>, "Ausgang", <<"-", "3", ",", "2", "0">>)
RBefore == Line(<<"3", "1", ".", "1", "2", ".", "2", "3">>, <<>>, "Me", "Shop", <<"Miete">>, "Ausgang", <<"-", "7", "0", "0", ",", "0", "0">>)
RAfter == Line(<<"1", ".", "2", ".", "2", "4">>, <<>>, "Friend", "Me", <<"Danke">>, "Eingang", <<"1", "2", ",", "0", "0">>)
RFooter ==
    Line(<<"3", "1", ".", "0", "1", ".", "2", "4">>, <<>>, BankName, "Me", <<"Abrechnung", BalanceMarker>>, "Ausgang", <<"0", ",", "0", "0">>)
RBadDate == Line(<<"2", "0", "2", "4", "-", "0", "1", "-", "1", "5">>, <<>>, "Me", "Shop", <<"Miete">>, "Ausgang", <<"-", "5", ",", "0", "0">>)
RShort == OneFieldLine(<<"1", "5", ".", "0", "1", ".", "2", "4">>)
RBadAmount == Line(<<"1", "6", ".", "0", "1", ".", "2", "4">>, <<>>, "Me", "Shop", <<"Miete">>, "Ausgang", <<"a", "b", "c">>)

\* A line of the bank without the balance marker, and a line with the marker
\* whose payer is not the bank: neither is the balance summary.  Their
\* transaction types are the empty text and a lower-case 'eingang'.
RBankFee == Line(<<"2", "0", ".", "0", "1", ".", "2", "4">>, <<>>, BankName, "Me", <<"Entgelt">>, "", <<"-", "4", ",", "9", "0">>)
RMarkerMemo == Line(<<"2", "1", ".", "0", "1", ".", "2", "4">>, <<>>, "Me", "Shop", <<BalanceMarker>>, "eingang", <<"-", "1", ",", "0", "0">>)

RowSet == {RMid, RFirst, RLast, RBefore, RAfter, RFooter, RBadDate, RShort,
           RBadAmount, RBankFee, RMarkerMemo, BlankLine}

\* Lines 2 to 5 of an export: the bank's preamble, or four lines that would
\* be transactions, or lines that would not parse, further down.
PreFiller ==
    <<OneFieldLine(<<>>), OneFieldLine(<<"K", "o", "n", "t", "o">>), BlankLine,
      Line(<<"B", "u", "c", "h", "u", "n", "g">>, <<>>, "Payer", "Payee",
           <<"Purpose">>, "Type", <<"B", "e", "t", "r", "a", "g">>)>>
PreRows == <<RMid, RFirst, RFooter, RBadDate>>
Preambles == {PreFiller, PreRows}

SeqsUpTo(S, n) == UNION {[1..k -> S] : k \in 0..n}

Export(header, pre, rows) == DkbFile(<<header>> \o pre \o rows)

EmptyFile == DkbFile(<<>>)

\* The exports of the conversion runs: every preamble and every sequence of
\* up to MaxRows transaction lines under a good header; the bad headers; a
\* file with nothing but a header whose IBAN field ends in a line break; an
\* export whose first line is empty; files that end before line 6.
GoodExports ==
    {Export(HeaderLine(GoodIban), pre, rows) :
        pre \in Preambles, rows \in SeqsUpTo(RowSet, MaxRows)}
BadHeaderExports ==
    {Export(HeaderLine(i), PreFiller, rows) :
        i \in BadIbans \cup {None}, rows \in {<<>>, <<RMid>>}}
OddExports ==
    { EmptyFile,
      DkbFile(<<HeaderLine(NewlineIban)>>),
      DkbFile(<<HeaderLine(GoodIban)>>),
      DkbFile(<<HeaderLine(GoodIban), RMid, RMid>>),
      Export(BlankLine, PreFiller, <<RMid>>),
      Export(BlankLine, PreFiller, <<RFooter>>) }
ConvExports == GoodExports \cup BadHeaderExports \cup OddExports

FGood == Export(HeaderLine(GoodIban), PreFiller, <<RMid, RFooter>>)
FMixed == Export(HeaderLine(GoodIban), PreFiller, <<RBefore, RLast>>)
FBadRow == Export(HeaderLine(GoodIban), PreFiller, <<RMid, RBadDate>>)
FBadIban == Export(HeaderLine(<<"D", "E", "1", "2", "3", "4">>), PreFiller, <<RMid>>)

\* What the conversion runs start from: one file in the work directory.
ConvInputs ==
    ({NExport, NRanged} \X ConvExports)
    \cup ({NSuffix, NBadDate, NNotes} \X {FGood, FMixed, FBadRow, FBadIban})

\* What the external actor puts into the mailbox directory of the loop.
LoopInputs ==
    { <<NExport, FGood>>, <<NExport, FBadRow>>, <<NRanged, FGood>>,
      <<NBadDate, FGood>>, <<NHidden, FGood>> }

\* The order in which client.list names the entries it knows.
NameOrder == <<NHidden, NExport, NRanged, NSuffix, NBadDate, NNotes>>

\* ------------------------------------------------- download_webdav_files

Listing(dir) ==
    LET Present(n) == n \in DOMAIN dir
    IN  SelectSeq(NameOrder, Present)

\* A listing that keeps the hidden entries.
SafeFilesWithHidden(webdav_files) == Tail(webdav_files)

\* 'del webdav_files[0]' and the filter on names that start with '.'.
SafeFiles(webdav_files) ==
    LET NotHidden(n) == ~StartsWith(n, <<".">>)
    IN  SelectSeq(Tail(webdav_files), NotHidden)

\* A WebDAV request and its outcome.  A request that fails raises a
\* WebDavException, the class that the handlers of the program name.
Request(op, n, ok) == [op |-> op, name |-> n, ok |-> ok]

\* A loop that deletes the remote file whatever the download did.
DeleteAlways(dlOk) == TRUE

\* delete_webdav_file is called after download_sync inside the try block: a
\* download that raised never reaches it.
DeleteIssued(dlOk) == dlOk

\* A loop that a failed download ends.
StopAfterFailedDownload(rest) == <<>>

\* 'except WebDavException' inside the for loop: the loop goes on with the
\* entries after the one whose download failed.
AfterFailedDownload(rest) == rest

\* client.check and client.list, up to the start of the for loop.  A failure
\* (listOk = FALSE) is caught by the outer handler, which ends the function.
ListRemote(listOk) ==
    /\ pc = "list"
    /\ LET safe == IF listOk THEN SafeFiles(<<DirEntry>> \o Listing(remote)) ELSE <<>>
       IN  /\ safe_files' = safe
           /\ pc' = IF safe # <<>> THEN "fetch" ELSE "scan"
    /\ rlog' = <<Request("list", DirEntry, listOk)>>
    /\ UNCHANGED <<remote, dest, staging, files, last, converted>>

\* One turn of the for loop: download_sync, then delete_webdav_file, which
\* logs its own failure.  A failed download writes nothing to the work
\* directory.
FetchOne(dlOk, delOk) ==
    /\ pc = "fetch"
    /\ safe_files # <<>>
    /\ LET f == Head(safe_files)
           rest == IF dlOk THEN Tail(safe_files)
                   ELSE AfterFailedDownload(Tail(safe_files))
           deleting == DeleteIssued(dlOk)
       IN  /\ staging' = IF dlOk THEN Put(staging, f, remote[f]) ELSE staging
           /\ remote' = IF deleting /\ delOk THEN Remove(remote, f) ELSE remote
           /\ rlog' = rlog \o <<Request("download", f, dlOk)>>
                      \o (IF deleting THEN <<Request("delete", f, delOk)>> ELSE <<>>)
           /\ safe_files' = rest
           /\ pc' = IF rest # <<>> THEN "fetch" ELSE "scan"
           /\ converted' = IF dlOk THEN converted \ {f} ELSE converted
    /\ UNCHANGED <<dest, files, last>>

\* -------------------------------------------------------------------- main

\* files = Path(workdir).glob('*.csv'): the generator lists the directory
\* when the for loop asks for its first entry, so the loop runs over the
\* names present at that moment, in the order the file system gives.
Scan ==
    /\ pc = "scan"
    /\ files' = {n \in DOMAIN staging : EndsWith(n, DotCsv)}
    /\ pc' = IF files' # {} THEN "convert" ELSE "sleep"
    /\ UNCHANGED <<remote, dest, staging, safe_files, rlog, last, converted>>

\* One turn of 'for file in files': convert_file(file).  An exception that
\* leaves convert_file ends the process.
Converting(f, r) ==
    /\ staging' = r.work
    /\ dest' = r.out
    /\ last' = r.last
    /\ files' = files \ {f}
    /\ converted' = (IF ~r.last.conv.raised /\ r.last.upOk
                     THEN converted \cup {f} ELSE converted) \cap DOMAIN r.work
    /\ pc' = IF r.crashed THEN "crashed"
             ELSE IF files \ {f} # {} THEN "convert" ELSE "sleep"

ConvertFile(f, upOk, rmOk) ==
    /\ pc = "convert"
    /\ f \in files
    /\ Converting(f, ConvertFileResult(staging, dest, f, upOk, rmOk))
    /\ UNCHANGED <<remote, safe_files, rlog>>

\* time.sleep(int(interval)), then the next turn of 'while True'.
Sleep ==
    /\ pc = "sleep"
    /\ pc' = "list"
    /\ rlog' = <<>>
    /\ last' = NoCall
    /\ UNCHANGED <<remote, dest, staging, safe_files, files, converted>>

\* The external actor puts an export into the mailbox directory while the
\* loop sleeps.
EnvPut(n, c) ==
    /\ pc = "sleep"
    /\ Cardinality(DOMAIN remote \cup {n}) <= MaxRemote
    /\ remote' = Put(remote, n, c)
    /\ UNCHANGED <<dest, staging, pc, safe_files, files, rlog, last, converted>>

Init ==
    /\ remote = EmptyDir
    /\ dest = EmptyDir
    /\ staging = EmptyDir
    /\ pc = "list"
    /\ safe_files = <<>>
    /\ files = {}
    /\ rlog = <<>>
    /\ last = NoCall
    /\ converted = {}

Next ==
    \/ \E listOk \in BOOLEAN : ListRemote(listOk)
    \/ \E dlOk \in BOOLEAN, delOk \in BOOLEAN : FetchOne(dlOk, delOk)
    \/ Scan
    \/ \E f \in files, upOk \in BOOLEAN, rmOk \in BOOLEAN : ConvertFile(f, upOk, rmOk)
    \/ Sleep
    \/ \E in \in LoopInputs : EnvPut(in[1], in[2])

\* The polling loop with its environment.
Spec == Init /\ [][Next]_vars

\* One conversion run: a file in the work directory, found by the scan and
\* converted.
ConvInit ==
    /\ \E in \in ConvInputs : staging = Put(EmptyDir, in[1], in[2])
    /\ remote = EmptyDir
    /\ dest = EmptyDir
    /\ pc = "scan"
    /\ safe_files = <<>>
    /\ files = {}
    /\ rlog = <<>>
    /\ last = NoCall
    /\ converted = {}

ConvNext ==
    \/ Scan
    \/ \E f \in files, upOk \in BOOLEAN, rmOk \in BOOLEAN : ConvertFile(f, upOk, rmOk)

ConvSpec == ConvInit /\ [][ConvNext]_vars

\* ------------------------------------------------------------------ claims
\* The claims are stated over the record of the last convert_file call and the
\* directories as that call left them.

\* The call converted an export that was in the work directory.
ConvertedExport == last.called /\ ~last.crashed /\ last.src.kind = "dkb"

\* convert_data left by an exception in the header line or in a data line.
FailedConversion ==
    last.conv.raised /\ (last.conv.failLine = 1 \/ last.conv.failLine > PreambleLines)

\* C1: for a staged file whose name carries no date range, convert_file
\* deletes the file from the work directory if and only if convert_data
\* completed without error; after a failed conversion the file is still there.
C1_SourceDeletedIffConverted ==
    (ConvertedExport /\ ~last.ranged) =>
        ((last.file \notin DOMAIN staging) <=> ~last.conv.raised)

\* C2: a file that fails (bad header, bad row, or a ranged name whose date
\* tokens are no calendar dates) does not keep convert_file from being called
\* on the files that remain in this cycle: the loop is still running.
C2_FailureIsolated ==
    (last.called /\ files # {}
       /\ (FailedConversion \/ (last.ranged /\ ~last.range.active)))
        => pc = "convert"

\* C3: after a data line (line 6 or later) failed to parse, no output file
\* holding the rows accepted before the failure exists, neither in the
\* destination directory nor in the work directory.
C3_NoPartialOutput ==
    (last.called /\ last.conv.raised /\ last.conv.failLine > PreambleLines) =>
        /\ ~(/\ last.conv.fname \in DOMAIN staging
             /\ staging[last.conv.fname] = YnabFile(last.conv.out))
        /\ ~(/\ last.conv.fname \in DOMAIN dest
             /\ dest[last.conv.fname] = YnabFile(last.conv.out))

\* 'DE' followed by exactly 20 digits, and nothing else.
ExactIban(s) ==
    /\ Len(s) = 22
    /\ s[1] = "D" /\ s[2] = "E"
    /\ \A i \in 3..22 : s[i] \in Digits

\* C4: a header line whose IBAN field is not 'DE' and exactly 20 digits ends
\* the conversion before any output exists (no output file, no row, no
\* upload); a header line with such an IBAN is accepted.
C4_HeaderIbanChecked ==
    (ConvertedExport /\ Len(last.src.lines) >= 1 /\ ~last.src.lines[1].blank) =>
        IF ExactIban(last.src.lines[1].Wertstellung)
        THEN last.conv.bound
        ELSE /\ last.conv.raised /\ last.conv.failLine = 1
             /\ ~last.conv.bound /\ last.conv.out = <<>>
             /\ last.uploads = 0
             /\ dest = EmptyDir
             /\ DOMAIN staging \subseteq {last.file}

\* The whole name is eight digits, a hyphen, eight digits and '.csv'.
ExactRangedName(name) ==
    /\ Len(name) = 21
    /\ \A i \in (1..8) \cup (10..17) : name[i] \in Digits
    /\ name[9] = "-"
    /\ SubSeq(name, 18, 21) = <<".", "c", "s", "v">>

\* C5: a file name starts date-range filtering only when the ranged pattern
\* matches the whole name.
C5_RangeOnlyForExactName ==
    (last.called /\ last.range.active) => ExactRangedName(last.file)

\* The 'YYYYMMDD' number of the 'YYYY-MM-DD' text of an output row.
KeyOfIso(t) ==
    ToInt(SubSeq(t, 1, 4)) * 10000 + ToInt(SubSeq(t, 6, 7)) * 100 + ToInt(SubSeq(t, 9, 10))

\* The bounds of the range, read from the digits of the file name.
StartKey(name) == ToInt(SubSeq(name, 1, 8))
EndKey(name) == ToInt(SubSeq(name, 10, 17))
Within(k, name) == StartKey(name) <= k /\ k <= EndKey(name)

\* The line has a date, and that date is inside (outside) the range of name.
DatedWithin(row, name, date) == date.ok /\ Within(DateKey(date), name)
DatedOutside(row, name, date) == date.ok /\ ~Within(DateKey(date), name)
LineWithin(row, name) == DatedWithin(row, name, StrptimeDmy(row.Buchungsdatum))
LineOutside(row, name) == DatedOutside(row, name, StrptimeDmy(row.Buchungsdatum))

\* The balance summary line of an export.
IsFooter(row) ==
    /\ row.Zahlungspflichtige = "DKB AG"
    /\ row.Verwendungszweck # None
    /\ \E i \in 1..Len(row.Verwendungszweck) :
          row.Verwendungszweck[i] = "Kontostand/Rechnungsabschluss"

\* The lines of the source that convert_data got through: all of them, or
\* those before the line that raised.
LinesDone(call) ==
    IF call.conv.raised THEN 1..(call.conv.failLine - 1) ELSE 1..Len(call.src.lines)

\* The lines from line 6 on that belong in the output of a ranged call.
DueLines(call) ==
    {n \in LinesDone(call) :
        /\ n > PreambleLines
        /\ ~call.src.lines[n].blank
        /\ LineWithin(call.src.lines[n], call.file)
        /\ ~IsFooter(call.src.lines[n])}

\* The k-th of the set S of line numbers.
Nth(S, k) == CHOOSE n \in S : Cardinality({m \in S : m <= n}) = k

\* The output row written for a line.
IsRowOf(out, row, date) ==
    /\ out.Date = StrftimeIso(date)
    /\ out.Memo = row.Verwendungszweck
    /\ out.Payee \in {row.Zahlungspflichtige, row.Zahlungsempfaenger}
RowMatches(out, row) == IsRowOf(out, row, StrptimeDmy(row.Buchungsdatum))

\* A call of convert_file on an export with a range that convert_data got.
RangedCall == ConvertedExport /\ last.range.active

\* C6: with a range [start, end] active, every row of the output has a date
\* with start <= date <= end, the output is exactly the non-footer lines from
\* line 6 on whose date is in the range (both bounds included), in their
\* order, and a line with a date outside the range never raises; the
\* uploaded file holds these rows.
C6_RangeFilter ==
    RangedCall =>
        /\ \A k \in 1..Len(last.conv.out) :
              Within(KeyOfIso(last.conv.out[k].Date), last.file)
        /\ Len(last.conv.out) = Cardinality(DueLines(last))
        /\ \A k \in 1..Len(last.conv.out) :
              RowMatches(last.conv.out[k], last.src.lines[Nth(DueLines(last), k)])
        /\ (last.conv.raised /\ last.conv.failLine > PreambleLines) =>
              ~LineOutside(last.src.lines[last.conv.failLine], last.file)
        /\ last.upOk =>
              /\ last.conv.fname \in DOMAIN dest
              /\ dest[last.conv.fname] = YnabFile(last.conv.out)

\* A ranged conversion that ran to its end, kept a line dated on the last day
\* of the range and dropped a line dated outside the range.
C6_Witness ==
    /\ RangedCall /\ ~last.conv.raised /\ last.upOk
    /\ \E k \in 1..Len(last.conv.out) :
          KeyOfIso(last.conv.out[k].Date) = EndKey(last.file)
    /\ \E n \in (PreambleLines + 1)..Len(last.src.lines) :
          /\ ~last.src.lines[n].blank
          /\ LineOutside(last.src.lines[n], last.file)

\* C7: the conversion of the staged files never deletes or changes a file of
\* the work directory whose name carries a date range, whether its conversion
\* succeeds or fails.
C7_RangedSourceKept ==
    [][pc = "convert" =>
          \A n \in DOMAIN staging :
              HasRange(n) => (n \in DOMAIN staging' /\ staging'[n] = staging[n])]_vars

\* A ranged file was converted without error, its output uploaded, and the
\* file is still in the work directory.
C7_Witness ==
    /\ RangedCall /\ ~last.conv.raised /\ last.upOk
    /\ last.conv.out # <<>>
    /\ last.file \in DOMAIN staging
    /\ staging[last.file] = last.src

\* The requests of this cycle: a delete follows at once the successful
\* download of the same file, and a file whose download failed has no delete
\* request and is still in the remote directory.
DeletesFollowDownloads ==
    /\ \A i \in 1..Len(rlog) :
          rlog[i].op = "delete" =>
              (i > 1 /\ rlog[i - 1] = Request("download", rlog[i].name, TRUE))
    /\ \A i \in 1..Len(rlog) :
          (rlog[i].op = "download" /\ ~rlog[i].ok) =>
              /\ rlog[i].name \in DOMAIN remote
              /\ \A j \in 1..Len(rlog) :
                    ~(rlog[j].op = "delete" /\ rlog[j].name = rlog[i].name)

\* C8: a file leaves the remote source directory only in a step that has put
\* its content into the work directory, a remote delete is issued only right
\* after the successful download of that file, and a file whose download
\* failed gets no delete request and stays in the remote directory.
C8_DeleteAfterDownload ==
    [][/\ \A n \in DOMAIN remote \ DOMAIN remote' :
             /\ pc = "fetch"
             /\ n \in DOMAIN staging' /\ staging'[n] = remote[n]
       /\ DeletesFollowDownloads']_vars

\* A cycle in which one download failed and another file was downloaded and
\* deleted from the remote directory.
C8_Witness ==
    /\ \E i \in 1..Len(rlog) : rlog[i].op = "download" /\ ~rlog[i].ok
    /\ \E i \in 1..Len(rlog) :
          /\ rlog[i] = Request("delete", rlog[i].name, TRUE)
          /\ rlog[i].name \notin DOMAIN remote
          /\ rlog[i].name \in DOMAIN staging

\* The request of kind op for the file n, where there is one in the log.
Requested(log, op, n) == \E i \in 1..Len(log) : log[i].op = op /\ log[i].name = n

\* C9: a remote failure only skips the item it concerns.  A failed listing
\* goes on to the scan of the work directory; a turn of the download loop,
\* failed or not, goes on to the next listed file (to the scan after the last
\* one) and asks for a file that was not asked for before in the cycle; a
\* failed delete leaves one delete request for the file; a conversion whose
\* upload failed goes on to the next staged file (to the sleep after the last
\* one); the sleep is followed by the next listing.
C9_RemoteFailureSkipsItem ==
    [][/\ (pc = "list" /\ ~rlog'[1].ok) => (pc' = "scan" /\ staging' = staging)
       /\ pc = "fetch" =>
             /\ safe_files' = Tail(safe_files)
             /\ pc' = (IF Tail(safe_files) # <<>> THEN "fetch" ELSE "scan")
             /\ ~Requested(rlog, "download", Head(safe_files))
             /\ ~Requested(rlog, "delete", Head(safe_files))
             /\ Len(rlog') <= Len(rlog) + 2
       /\ (pc = "convert" /\ last'.uploads = 1 /\ ~last'.upOk) =>
             /\ files' # files /\ files' \subseteq files
             /\ pc' = (IF files' # {} THEN "convert" ELSE "sleep")
       /\ pc = "scan" => pc' \in {"convert", "sleep"}
       /\ pc = "sleep" => pc' \in {"sleep", "list"}]_vars

\* A cycle that reached the sleep after a failed download, a later download
\* with a failed remote delete, and a conversion whose upload failed.
C9_Witness ==
    /\ pc = "sleep"
    /\ \E i \in 1..Len(rlog), j \in 1..Len(rlog) :
          /\ i < j
          /\ rlog[i].op = "download" /\ ~rlog[i].ok
          /\ rlog[j].op = "download" /\ rlog[j].ok
    /\ \E i \in 1..Len(rlog) : rlog[i].op = "delete" /\ ~rlog[i].ok
    /\ last.called /\ last.uploads = 1 /\ ~last.upOk

\* convert_data read the source to its end and had an output file open.
ReadToEnd == ConvertedExport /\ last.conv.bound /\ ~last.conv.raised

\* C10 as stated: after the source was read to its end the output file is gone
\* from the work directory, after exactly one upload attempt.
C10_OutputRemoved ==
    ReadToEnd => (last.uploads = 1 /\ last.conv.fname \notin DOMAIN staging)

\* C10: after the source was read to its end the upload is attempted exactly
\* once and then, whether it succeeded or failed, the removal of the output
\* file is attempted exactly once; the file is gone from the work directory
\* unless that removal itself fails, and then it is left as written; a failed
\* upload puts nothing into the destination and neither failure ends the
\* conversion or the process.
C10_OutputCleanup ==
    ReadToEnd =>
        /\ last.uploads = 1 /\ last.unlinks = 1
        /\ last.rmOk => last.conv.fname \notin DOMAIN staging
        /\ ~last.rmOk =>
              /\ last.conv.fname \in DOMAIN staging
              /\ staging[last.conv.fname] = YnabFile(last.conv.out)
        /\ last.upOk =>
              /\ last.conv.fname \in DOMAIN dest
              /\ dest[last.conv.fname] = YnabFile(last.conv.out)
        /\ ~last.upOk => last.conv.fname \notin DOMAIN dest
        /\ pc # "crashed"

\* The upload failed and the output file was removed all the same.
C10_Witness ==
    /\ ReadToEnd
    /\ last.uploads = 1 /\ ~last.upOk
    /\ last.unlinks = 1 /\ last.rmOk
    /\ last.conv.out # <<>>
    /\ last.conv.fname \notin DOMAIN staging

\* The name begins with a dot.
IsHidden(n) == Len(n) >= 1 /\ n[1] = "."

\* The requests that the step added to the log of the cycle.
NewRequests == {rlog'[i] : i \in (Len(rlog) + 1)..Len(rlog')}

\* C11: every download and every remote delete of a cycle is for a non-hidden
\* entry of the remote directory, never for the directory's own entry; a
\* hidden remote entry stays in the remote directory and never comes into
\* the work directory.
C11_HiddenNeverFetched ==
    [][/\ pc = "fetch" =>
             \A r \in NewRequests :
                 /\ r.name \in DOMAIN remote
                 /\ ~IsHidden(r.name)
                 /\ r.name # DirEntry
       /\ \A n \in DOMAIN remote :
             IsHidden(n) => (n \in DOMAIN remote' /\ n \notin DOMAIN staging')]_vars

\* A cycle downloaded and deleted a file while a hidden entry was in the
\* remote directory, and the hidden entry is still there.
C11_Witness ==
    /\ pc = "scan"
    /\ \E n \in DOMAIN remote : IsHidden(n)
    /\ \E i \in 1..Len(rlog) : rlog[i] = Request("delete", rlog[i].name, TRUE)
    /\ \A n \in DOMAIN staging : ~IsHidden(n)
    /\ staging # EmptyDir

\* The lines of the source, at any line number, that are a balance summary.
FooterLines(call) ==
    {n \in 1..Len(call.src.lines) :
        ~call.src.lines[n].blank /\ IsFooter(call.src.lines[n])}

\* C12: no row of the output (the rows written, and the file uploaded) is the
\* row of a line whose payer is 'DKB AG' and whose memo contains
\* 'Kontostand/Rechnungsabschluss', at whatever line number the line stands
\* and with or without a range; a line with only one of the two marks is not
\* dropped for it.
C12_FooterNeverEmitted ==
    ConvertedExport =>
        /\ \A k \in 1..Len(last.conv.out), n \in FooterLines(last) :
              ~RowMatches(last.conv.out[k], last.src.lines[n])
        /\ \A n \in LinesDone(last) :
              (/\ n > PreambleLines
               /\ last.src.lines[n] \in {RBankFee, RMarkerMemo}
               /\ (last.range.active => LineWithin(last.src.lines[n], last.file)))
                  => \E k \in 1..Len(last.conv.out) :
                        RowMatches(last.conv.out[k], last.src.lines[n])
        /\ last.upOk => dest[last.conv.fname] = YnabFile(last.conv.out)

\* A conversion ran to its end over an export whose line 6 is the balance
\* summary and whose line 7 is a transaction, and uploaded the one row.
C12_Witness ==
    /\ ConvertedExport /\ ~last.conv.raised /\ last.upOk
    /\ Len(last.src.lines) = PreambleLines + 2
    /\ PreambleLines + 1 \in FooterLines(last)
    /\ Len(last.conv.out) = 1
    /\ last.conv.fname \in DOMAIN dest

\* The text without a sign in front of it.
Unsigned(t) == IF t # <<>> /\ t[1] \in {"-", "+"} THEN Tail(t) ELSE t

\* The pieces around '.' are the digits of a decimal numeral.
DecimalPieces(p) ==
    /\ Len(p) \in {1, 2}
    /\ \A i \in 1..Len(p) : p[i] # <<>> /\ IsDigits(p[i])

\* A decimal numeral: an optional sign, digits, and maybe '.' and digits.
IsDecimal(t) == DecimalPieces(Split(Unsigned(t), "."))

\* The line would be written but for its amount, which is no decimal numeral
\* after '.' is stripped and ',' replaced by '.'.
BadAmountLine(row, name, ranged) ==
    /\ ~row.blank /\ row.Betrag # None /\ ~IsFooter(row)
    /\ IF ranged THEN LineWithin(row, name) ELSE StrptimeDmy(row.Buchungsdatum).ok
    /\ ~IsDecimal(ReplaceChar(ReplaceChar(row.Betrag, ".", <<>>), ",", <<".">>))

\* C13: no row is written with an Amount that is not a decimal numeral, and a
\* line from line 6 on whose rewritten amount is not one makes the conversion
\* fail at that line or before it.
C13_AmountValidated ==
    ConvertedExport =>
        /\ \A k \in 1..Len(last.conv.out) : IsDecimal(last.conv.out[k].Amount)
        /\ \A n \in (PreambleLines + 1)..Len(last.src.lines) :
              BadAmountLine(last.src.lines[n], last.file, last.range.active) =>
                  (last.conv.raised /\ last.conv.failLine <= n)

\* The lines from line 6 on that a call wrote a row for: those it got
\* through that are no balance summary and lie inside the range, if any.
WrittenLines(call) ==
    {n \in LinesDone(call) :
        /\ n > PreambleLines
        /\ ~call.src.lines[n].blank
        /\ ~IsFooter(call.src.lines[n])
        /\ (call.range.active => LineWithin(call.src.lines[n], call.file))}

\* The payee that the row of a line has to name.
ExpectedPayee(row) ==
    IF row.Umsatztyp = "Eingang" THEN row.Zahlungspflichtige
    ELSE row.Zahlungsempfaenger

\* C14: the Payee of every row written is the payer of its line when the
\* transaction type of the line is 'Eingang', and the payee of its line for
\* every other type (a lower-case 'eingang' and an empty type among them).
C14_PayeeByDirection ==
    ConvertedExport =>
        /\ Len(last.conv.out) = Cardinality(WrittenLines(last))
        /\ \A k \in 1..Len(last.conv.out) :
              last.conv.out[k].Payee =
                  ExpectedPayee(last.src.lines[Nth(WrittenLines(last), k)])

\* An inflow at line 6 and a line of another type at line 7, both written:
\* the first row names the payer of line 6, the second the payee of line 7.
C14_Witness ==
    /\ ConvertedExport /\ ~last.conv.raised
    /\ Len(last.conv.out) = 2
    /\ Len(last.src.lines) = PreambleLines + 2
    /\ last.src.lines[PreambleLines + 1].Umsatztyp = "Eingang"
    /\ last.src.lines[PreambleLines + 2].Umsatztyp = "eingang"
    /\ last.conv.out[1].Payee = last.src.lines[PreambleLines + 1].Zahlungspflichtige
    /\ last.conv.out[2].Payee = last.src.lines[PreambleLines + 2].Zahlungsempfaenger
    /\ last.conv.out[1].Payee # last.src.lines[PreambleLines + 1].Zahlungsempfaenger
    /\ last.conv.out[2].Payee # last.src.lines[PreambleLines + 2].Zahlungspflichtige

\* The name the output of a call has to have: run date, account and IBAN of
\* line 1, and for a ranged call the two dates as the eight digits each has
\* in the name of the source.
ExpectedOutputName(call) ==
    Datestamp \o <<"-">> \o call.src.lines[1].Buchungsdatum \o <<"-">>
    \o call.src.lines[1].Wertstellung
    \o (IF call.range.active
        THEN <<"_">> \o SubSeq(call.file, 1, 8) \o <<"_">> \o SubSeq(call.file, 10, 17)
        ELSE <<>>)
    \o <<".", "c", "s", "v">>

\* C15: the output file of a conversion is named
\* <run date>-<account>-<iban>.csv, and for a ranged conversion
\* <run date>-<account>-<iban>_<start>_<end>.csv with start and end as eight
\* digits each.
C15_OutputName ==
    (ConvertedExport /\ last.conv.bound) =>
        last.conv.fname = ExpectedOutputName(last)

\* The whole output row of a line: date as 'YYYY-MM-DD', payee by direction,
\* the memo, and the amount without '.' and with '.' for ','.
IsFullRowOf(out, row) ==
    /\ RowMatches(out, row)
    /\ out.Payee = ExpectedPayee(row)
    /\ out.Amount = ReplaceChar(ReplaceChar(row.Betrag, ".", <<>>), ",", <<".">>)

\* The output file of the call, where it is: uploaded, or in the work
\* directory when the call did not remove it.
OutputFiles(call) ==
    (IF call.conv.fname \in DOMAIN dest THEN {dest[call.conv.fname]} ELSE {})
    \cup (IF call.conv.fname \in DOMAIN staging THEN {staging[call.conv.fname]} ELSE {})

\* C16: once line 1 gave the account header, the output is created with its
\* header row only; lines 2 to 5 give no row and no error whatever they
\* hold; the data rows of the output are the rows of the lines from line 6 on
\* that are no balance summary and lie inside the range, if one is active,
\* one row for each such line and in the order of the lines.
C16_LineStateMachine ==
    (ConvertedExport /\ last.conv.bound) =>
        /\ ~last.src.lines[1].blank
        /\ last.conv.raised => last.conv.failLine > PreambleLines
        /\ Len(last.conv.out) = Cardinality(WrittenLines(last))
        /\ \A k \in 1..Len(last.conv.out) :
              IsFullRowOf(last.conv.out[k], last.src.lines[Nth(WrittenLines(last), k)])
        /\ \A f \in OutputFiles(last) : f = YnabFile(last.conv.out)
        /\ (last.upOk \/ ~last.rmOk) => OutputFiles(last) # {}

\* The export of seven lines: header, four lines that hold transactions and
\* are not read as such, one transaction and the balance summary; the
\* uploaded file holds the one row of line 6.
C16_Witness ==
    /\ ConvertedExport /\ ~last.conv.raised /\ last.upOk /\ ~last.range.active
    /\ Len(last.src.lines) = PreambleLines + 2
    /\ last.src.lines[2] = RMid
    /\ last.src.lines[PreambleLines] = RBadDate
    /\ last.src.lines[PreambleLines + 1] = RFirst
    /\ IsFooter(last.src.lines[PreambleLines + 2])
    /\ dest[last.conv.fname] = YnabFile(<<last.conv.out[1]>>)

\* C17: when a cycle scans the work directory, no file in it is an output
\* file that convert_data wrote, and convert_file is never called on such a
\* file.
C17_OutputsNeverInput ==
    /\ pc = "scan" => \A n \in DOMAIN staging : staging[n].kind # "ynab"
    /\ last.called => last.src.kind # "ynab"

\* C18: when an unranged export that was downloaded and handed to
\* convert_file is neither in the remote source directory nor in the work
\* directory any more, its converted output was uploaded and is in the
\* destination directory.
C18_NoExportLost ==
    (/\ ConvertedExport /\ ~last.ranged
     /\ last.file \notin DOMAIN remote
     /\ last.file \notin DOMAIN staging)
        => (/\ last.upOk
            /\ last.conv.fname \in DOMAIN dest
            /\ dest[last.conv.fname].kind = "ynab")

\* The file that a step of the conversion loop handed to convert_file.
ConvertedNow == files \ files'

\* C19: a staged file that was converted without error and whose output was
\* uploaded is not handed to convert_file again, and no other output is
\* uploaded for it, unless it was downloaded anew since.
C19_ConvertedOnce ==
    [][(pc = "convert" /\ files' # files) =>
          \A f \in ConvertedNow : f \notin converted]_vars

====
